---- MODULE Spec2Model ----
(***************************************************************************)
(* ThermalImageClassifierEfficientNet (src/tranfer-learning/tl-efficient.py) *)
(* as a state machine: the classifier object's attributes, the files it     *)
(* writes, and one action per public method.  The deep-learning framework   *)
(* is modelled by what its calls do to that state: which layers a model     *)
(* lists, which log keys an epoch produces, when a callback saves or        *)
(* lowers the learning rate.  Numeric results of training (loss, accuracy)  *)
(* are inputs, drawn from small sets.                                        *)
(*                                                                           *)
(* Units: learning rates are integers in units of 1e-6; losses are integers *)
(* in units of 1e-4 (the plateau callback's default min_delta); weights are *)
(* identified by the number of epochs trained since the model was built.    *)
(***************************************************************************)
EXTENDS Integers, Sequences, FiniteSets, TLC

VARIABLES pc, release, num_classes, height, width, image_size,
          train_ds, val_ds, test_ds, model, history, files, result

vars == <<pc, release, num_classes, height, width, image_size,
          train_ds, val_ds, test_ds, model, history, files, result>>

(*************************** bounds of the model ***************************)
\* num_classes is drawn from 1..MaxClasses
MaxClasses == 2
\* a dataset directory holds 0..MaxDirClasses class subdirectories
MaxDirClasses == 4
\* number of layers inside the pretrained backbone
BackboneLayers == 2
\* the longest epoch budget handed to train (the plateau callback acts at
\* the end of epoch Patience + 1, and training goes on after it)
MaxEpochs == 12
\* a model is trained for at most MaxTrained epochs in total after a build
MaxTrained == 13

(**************************** program constants ****************************)
Height == 75
InitialLR == 1000
FineTuneLR == 100
Patience == 10
FactorDen == 10
FineTuneLayerIndex == 2
DefaultBatchSize == 32

\* Python's None and a present value
None == <<>>
Some(x) == <<x>>
Get(o) == o[1]

Min(a, b) == IF a < b THEN a ELSE b
Abs(a) == IF a < 0 THEN -a ELSE a

\* model_path: train's default; the usage example passes one path to both
\* train and save_model
ModelPath == "thermal_model_efficientnet.keras"
Paths == {ModelPath}

\* the epoch budgets handed to train; with a budget of 0 fit runs no epoch
EpochBudgets == {0, 1, 2, MaxEpochs}

\* the shapes <<stall, peak>> of the training runs of a budget (see
\* training_run); a run of no epochs has no shape to choose
RunShapes(epochs) ==
    IF epochs = 0 THEN {<<1, 1>>}
    ELSE {1, epochs} \X ({1, 2, epochs} \cap 1..epochs)

\* The releases of the framework imported as tf.keras differ in how
\* model.save writes the function of a Lambda layer and in whether
\* load_model refuses what was written:
\*   up to 2.12    any Python function is written as marshalled bytecode, and
\*                 loaded back without a check
\*   2.13 to 2.15  written as bytecode; load_model runs in safe mode unless
\*                 safe_mode=False is passed and refuses bytecode
\*   Keras 3       a named function is written by name, bytecode only for a
\*                 lambda expression; safe mode as above
Releases ==
    { [lambda_as_bytecode |-> TRUE, safe_mode |-> FALSE],
      [lambda_as_bytecode |-> TRUE, safe_mode |-> TRUE],
      [lambda_as_bytecode |-> FALSE, safe_mode |-> TRUE] }

\* custom_objects handed to tf.keras.models.load_model
CustomObjects == {"preprocess_input"}

\* names handed to evaluate: the three known ones and an unknown one
DatasetNames == {"train", "val", "test", "holdout"}

(******************************* datasets **********************************)
\* tf.one_hot(y, depth): a vector of length depth, 1 at index y when
\* 0 <= y < depth, all zeros otherwise
one_hot(y, depth) == [i \in 1..depth |-> IF i - 1 = y THEN 1 ELSE 0]

\* tf.image.grayscale_to_rgb when the last dimension is 1, else unchanged
grey_to_rgb(image) ==
    IF image.channels = 1 THEN [image EXCEPT !.channels = 3] ELSE image

\* tf.keras.utils.image_dataset_from_directory(directory, image_size, batch_size):
\* one image per class subdirectory, labels inferred as the index of the
\* subdirectory, images decoded as rgb (color_mode default) and resized.
\* Raises ValueError when the directory holds no images.
image_dataset_from_directory(directory, size) ==
    IF directory.classes = 0
    THEN [raised |-> "ValueError", ds |-> None]
    ELSE [raised |-> "",
          ds |-> Some([i \in 1..directory.classes |->
                        [x |-> [size |-> size, channels |-> 3], y |-> i - 1]])]

\* _prepare_dataset: load, one-hot the labels to num_classes, grey to rgb
prepare_dataset(directory, size, nclasses) ==
    LET loaded == image_dataset_from_directory(directory, size)
    IN  IF loaded.raised # ""
        THEN loaded
        ELSE [raised |-> "",
              ds |-> Some([directory |-> directory.name,
                           batch_size |-> DefaultBatchSize,
                           elements |->
                             [i \in DOMAIN Get(loaded.ds) |->
                                [x |-> grey_to_rgb(Get(loaded.ds)[i].x),
                                 y |-> one_hot(Get(loaded.ds)[i].y, nclasses)]]])]

(******************************** results **********************************)
\* what the last call did: the method, the exception it raised ("" when it
\* returned), its arguments (for __init__, the number of class subdirectories
\* of the three directories) and its return value
NoResult ==
    [op |-> "", raised |-> "", epochs |-> 0, run |-> <<0, 0>>, start_layer |-> 0,
     dataset |-> "", eval_ds |-> None, loaded |-> None, plotted |-> FALSE,
     dirs |-> <<>>]

Returned(op) == [NoResult EXCEPT !.op = op]
Raised(op, exc) == [NoResult EXCEPT !.op = op, !.raised = exc]

(****************************** construction *******************************)
Directory(name, k) == [name |-> name, classes |-> k]

\* __init__: the attribute values after the constructor ran with these
\* arguments; the three datasets are prepared in order and the first failure
\* ends the constructor
Constructed(nclasses, train_dir, val_dir, test_dir) ==
    LET h == Height
        w == (h * 320) \div 240
        size == <<h, w>>
        tr == prepare_dataset(train_dir, size, nclasses)
        va == prepare_dataset(val_dir, size, nclasses)
        te == prepare_dataset(test_dir, size, nclasses)
        exc == IF tr.raised # "" THEN tr.raised
               ELSE IF va.raised # "" THEN va.raised
               ELSE te.raised
    IN  [pc |-> IF exc = "" THEN "ready" ELSE "failed",
         num_classes |-> nclasses, height |-> h, width |-> w, image_size |-> size,
         train_ds |-> tr.ds,
         val_ds |-> IF tr.raised = "" THEN va.ds ELSE None,
         test_ds |-> IF tr.raised = "" /\ va.raised = "" THEN te.ds ELSE None,
         result |-> [Raised("__init__", exc) EXCEPT
                        !.dirs = <<train_dir.classes, val_dir.classes, test_dir.classes>>]]

(********************************* model ***********************************)
\* a layer object: its class, its trainable attribute, the layers it lists
\* (only Functional and Sequential models have a layers attribute), the
\* units of a Dense layer, the __name__ of the function a Lambda wraps
Layer(class) ==
    [class |-> class, trainable |-> TRUE, layers |-> <<>>, units |-> 0, function |-> ""]

has_layers(layer) == layer.class \in {"Functional", "Sequential"}

\* layer.trainable = value: the attribute of the layer and of every layer in it
set_trainable(layer, value) ==
    [layer EXCEPT !.trainable = value,
                  !.layers = [i \in DOMAIN @ |-> [@[i] EXCEPT !.trainable = value]]]

\* tf.keras.applications.EfficientNetV2B3(include_top=False, weights='imagenet')
EfficientNetV2B3 ==
    [Layer("Functional") EXCEPT
        !.layers = [i \in 1..BackboneLayers |-> [class |-> "Layer", trainable |-> TRUE]]]

\* _create_augmentation_model: the layers of the functional model from
\* input_layer to the Lambda's output, in call order
create_augmentation_model ==
    << Layer("InputLayer"), Layer("Resizing"), Layer("RandomBrightness"),
       Layer("RandomContrast"), Layer("RandomFlip"),
       [Layer("Lambda") EXCEPT !.function = "preprocess_input"] >>

\* _compile_model: a new Nadam optimizer with the given learning rate; the
\* loss and the metric (tf.keras.metrics.Accuracy, named "accuracy") decide
\* the keys of an epoch's logs
compile_model(m, learning_rate) ==
    [m EXCEPT !.lr = learning_rate]

\* build_model: a new model from augmentation.input to the Dense output, so
\* its layers are the augmentation layers, the frozen backbone, the pooling
\* and the head; weights are the pretrained and freshly initialised ones
build_model(nclasses) ==
    LET pretrained == set_trainable(EfficientNetV2B3, FALSE)
        head == [Layer("Dense") EXCEPT !.units = nclasses]
    IN  compile_model(
          [layers |-> create_augmentation_model
                        \o << pretrained, Layer("GlobalAveragePooling2D"), head >>,
           weights |-> 0, lr |-> 0],
          InitialLR)

\* layers[start:] for start >= 0
SliceFrom(layers, start) == {i \in DOMAIN layers : i - 1 >= start}

\* fine_tune: self.model.layers[2].layers[start_layer:] are set trainable,
\* then the model is recompiled with the lower rate.  Reading .layers of a
\* layer that is not a model raises AttributeError before anything changes.
fine_tune(m, start_layer) ==
    LET target == m.layers[FineTuneLayerIndex + 1]
    IN  IF ~has_layers(target)
        THEN [raised |-> "AttributeError", model |-> m]
        ELSE [raised |-> "",
              model |-> compile_model(
                 [m EXCEPT !.layers[FineTuneLayerIndex + 1].layers =
                     [i \in DOMAIN @ |->
                        IF i \in SliceFrom(target.layers, start_layer)
                        THEN [@[i] EXCEPT !.trainable = TRUE] ELSE @[i]]],
                 FineTuneLR)]

\* the backbone is the Functional layer among the model's layers
BackboneIndex(m) == CHOOSE i \in DOMAIN m.layers : m.layers[i].class = "Functional"
Backbone(m) == m.layers[BackboneIndex(m)]

(****************************** persistence ********************************)
\* Lambda.get_config: how the wrapped function is written.  A function
\* written by name is looked up again when the file is loaded; one written
\* as bytecode is rebuilt from the bytes.
function_config(function) ==
    IF function = "" THEN [function_type |-> "", function |-> ""]
    ELSE IF release.lambda_as_bytecode
    THEN [function_type |-> "lambda", function |-> function]
    ELSE [function_type |-> "function", function |-> function]

\* model.save(path): architecture (each layer's config), weights and optimizer
layer_config(layer) ==
    [class_name |-> layer.class,
     config |-> [trainable |-> layer.trainable, units |-> layer.units,
                 function |-> function_config(layer.function),
                 layers |-> [i \in DOMAIN layer.layers |->
                                [class_name |-> layer.layers[i].class,
                                 config |-> [trainable |-> layer.layers[i].trainable]]]]]

save(m) ==
    [config |-> [i \in DOMAIN m.layers |-> layer_config(m.layers[i])],
     weights |-> m.weights,
     optimizer |-> [learning_rate |-> m.lr]]

\* Lambda.from_config under load_model(path, custom_objects), which passes
\* no safe_mode: bytecode is refused in safe mode, a name must be among
\* the custom objects
refused(cfg, custom_objects) ==
    \/ cfg.config.function.function_type = "lambda" /\ release.safe_mode
    \/ /\ cfg.config.function.function_type = "function"
       /\ cfg.config.function.function \notin custom_objects

layer_from_config(cfg) ==
    [class |-> cfg.class_name, trainable |-> cfg.config.trainable,
     layers |-> [i \in DOMAIN cfg.config.layers |->
                    [class |-> cfg.config.layers[i].class_name,
                     trainable |-> cfg.config.layers[i].config.trainable]],
     units |-> cfg.config.units, function |-> cfg.config.function.function]

\* tf.keras.models.load_model(path, custom_objects): file is the content at
\* path (None when nothing was saved there)
load_model(file, custom_objects) ==
    IF file = None
    THEN [raised |-> "FileNotFound", model |-> None]
    ELSE IF \E i \in DOMAIN Get(file).config :
               refused(Get(file).config[i], custom_objects)
    THEN [raised |-> "ValueError", model |-> None]
    ELSE [raised |-> "",
          model |-> Some([layers |-> [i \in DOMAIN Get(file).config |->
                                         layer_from_config(Get(file).config[i])],
                          weights |-> Get(file).weights,
                          lr |-> Get(file).optimizer.learning_rate])]

\* the model's output shape: (None, units of the last layer), batch axis omitted
output_shape(m) == << m.layers[Len(m.layers)].units >>

(******************************** training *********************************)
\* The logs of the epochs of one fit call, an input of the model: the loss
\* falls by 2 units an epoch up to epoch stall and stays there, the
\* validation accuracy rises to epoch peak and falls after it.  The keys are
\* those of a model compiled with one metric named "accuracy" and fitted
\* with validation data.
training_run(epochs, stall, peak) ==
    [e \in 1..epochs |->
        [loss |-> 2 * (epochs - Min(e, stall)) + 2,
         accuracy |-> epochs - Abs(e - peak),
         val_loss |-> 2 * (epochs - Min(e, stall)) + 3,
         val_accuracy |-> epochs - Abs(e - peak)]]

\* logs.get(key)
logs_get(logs, key) == IF key \in DOMAIN logs THEN Some(logs[key]) ELSE None

\* tf.keras.callbacks.ModelCheckpoint(model_path, save_best_only=True,
\*                                    monitor="val_binary_accuracy")
ModelCheckpoint == [monitor |-> "val_binary_accuracy", best |-> None]

\* ModelCheckpoint.on_epoch_end with save_best_only: the model is saved when
\* the monitored value improved (greater, the monitor's name holds "acc").
\* When the logs hold no such key the callback warns; releases differ in
\* what follows, older ones skip the save and newer ones save, so
\* saves_without_monitor is chosen by the caller.
checkpoint_on_epoch_end(cb, logs, m, file, saves_without_monitor) ==
    LET current == logs_get(logs, cb.monitor)
    IN  IF current = None
        THEN [cb |-> cb, file |-> IF saves_without_monitor THEN Some(save(m)) ELSE file]
        ELSE IF cb.best = None \/ Get(current) > Get(cb.best)
        THEN [cb |-> [cb EXCEPT !.best = current], file |-> Some(save(m))]
        ELSE [cb |-> cb, file |-> file]

\* tf.keras.callbacks.ReduceLROnPlateau(monitor="loss", factor=0.1, patience=10)
ReduceLROnPlateau ==
    [monitor |-> "loss", patience |-> Patience, best |-> None, wait |-> 0]

\* mutant of reduce_lr_on_epoch_end: the factor is applied the wrong way round
reduce_lr_raising(cb, logs, lr) ==
    LET current == logs_get(logs, cb.monitor)
    IN  IF current = None
        THEN [cb |-> cb, lr |-> lr]
        ELSE IF cb.best = None \/ Get(current) < Get(cb.best) - 1
        THEN [cb |-> [cb EXCEPT !.best = current, !.wait = 0], lr |-> lr]
        ELSE IF cb.wait + 1 >= cb.patience /\ lr > 0
        THEN [cb |-> [cb EXCEPT !.wait = 0], lr |-> lr * FactorDen]
        ELSE [cb |-> [cb EXCEPT !.wait = @ + 1], lr |-> lr]

\* ReduceLROnPlateau.on_epoch_end (mode min, min_delta 1 unit, cooldown 0,
\* min_lr 0): an epoch improves when the loss is below best - min_delta;
\* after patience epochs without improvement the rate is multiplied by 0.1
reduce_lr_on_epoch_end(cb, logs, lr) ==
    LET current == logs_get(logs, cb.monitor)
    IN  IF current = None
        THEN [cb |-> cb, lr |-> lr]
        ELSE IF cb.best = None \/ Get(current) < Get(cb.best) - 1
        THEN [cb |-> [cb EXCEPT !.best = current, !.wait = 0], lr |-> lr]
        ELSE IF cb.wait + 1 >= cb.patience /\ lr > 0
        THEN [cb |-> [cb EXCEPT !.wait = 0], lr |-> lr \div FactorDen]
        ELSE [cb |-> [cb EXCEPT !.wait = @ + 1], lr |-> lr]

\* the end of an epoch: the callbacks' results are applied in order:
\* ModelCheckpoint (ck), ReduceLROnPlateau (rl, which also adds the rate in
\* use to the logs), History
on_epoch_end(st, trained, logs, epoch, ck, rl) ==
    [model |-> [trained EXCEPT !.lr = rl.lr],
     checkpoint |-> ck.cb, plateau |-> rl.cb, file |-> ck.file,
     history |-> [epoch |-> Append(st.history.epoch, epoch - 1),
                  history |-> Append(st.history.history,
                                     [loss |-> logs.loss, accuracy |-> logs.accuracy,
                                      val_loss |-> logs.val_loss,
                                      val_accuracy |-> logs.val_accuracy,
                                      lr |-> trained.lr])]]

\* one epoch of model.fit: a pass over the training data changes the
\* weights, then the callbacks run on the epoch's logs
fit_epoch(st, trained, logs, epoch, saves_without_monitor) ==
    on_epoch_end(st, trained, logs, epoch,
                 checkpoint_on_epoch_end(st.checkpoint, logs, trained, st.file,
                                         saves_without_monitor),
                 reduce_lr_on_epoch_end(st.plateau, logs, trained.lr))

\* the epochs of model.fit from epoch on
RECURSIVE fit_epochs(_, _, _, _)
fit_epochs(st, run, epoch, saves_without_monitor) ==
    IF epoch > Len(run)
    THEN st
    ELSE fit_epochs(fit_epoch(st, [st.model EXCEPT !.weights = @ + 1], run[epoch],
                              epoch, saves_without_monitor),
                    run, epoch + 1, saves_without_monitor)

\* mutant of fit: training stops after the first epoch whose loss did not fall
fit_stopping_early(m, file, run, saves_without_monitor) ==
    LET stalled == {e \in 2..Len(run) : run[e].loss >= run[e - 1].loss}
        last == IF stalled = {} THEN Len(run)
                ELSE CHOOSE e \in stalled : \A f \in stalled : e <= f
    IN  fit_epochs([model |-> m, checkpoint |-> ModelCheckpoint,
                    plateau |-> ReduceLROnPlateau, file |-> file,
                    history |-> [epoch |-> <<>>, history |-> <<>>]],
                   SubSeq(run, 1, last), 1, saves_without_monitor)

\* model.fit(train_ds, validation_data=val_ds, epochs=epochs, callbacks=...):
\* new callbacks and a new History for each call; returns the model, the
\* file at model_path and the History
fit(m, file, run, saves_without_monitor) ==
    fit_epochs([model |-> m, checkpoint |-> ModelCheckpoint,
                plateau |-> ReduceLROnPlateau, file |-> file,
                history |-> [epoch |-> <<>>, history |-> <<>>]],
               run, 1, saves_without_monitor)

\* the keys plot_training_history reads from history.history
PlotKeys == {"loss", "val_loss", "accuracy", "val_accuracy"}

\* the keys of the dict history.history: History adds a key when an epoch
\* first logs it, so after a fit of no epochs the dict is empty
history_keys(h) ==
    IF h.history = <<>> THEN {} ELSE DOMAIN h.history[1]

(******************************** actions **********************************)
config == <<num_classes, height, width, image_size>>
datasets == <<train_ds, val_ds, test_ds>>

\* before the constructor ran
InitNew ==
    /\ pc = "new"
    /\ release \in Releases
    /\ num_classes = 0 /\ height = 0 /\ width = 0 /\ image_size = <<0, 0>>
    /\ train_ds = None /\ val_ds = None /\ test_ds = None
    /\ model = None /\ history = None
    /\ files = [p \in Paths |-> None]
    /\ result = NoResult

\* ThermalImageClassifierEfficientNet(train_dir, val_dir, test_dir, num_classes)
Construct ==
    /\ pc = "new"
    /\ \E nclasses \in 1..MaxClasses, kt \in 0..MaxDirClasses,
          kv \in 0..MaxDirClasses, ks \in 0..MaxDirClasses :
         LET c == Constructed(nclasses, Directory("train", kt),
                              Directory("val", kv), Directory("test", ks))
         IN  /\ pc' = c.pc
             /\ num_classes' = c.num_classes
             /\ height' = c.height /\ width' = c.width /\ image_size' = c.image_size
             /\ train_ds' = c.train_ds /\ val_ds' = c.val_ds /\ test_ds' = c.test_ds
             /\ result' = c.result
    /\ UNCHANGED <<release, model, history, files>>

\* a classifier constructed over three directories of MaxClasses classes
Init ==
    LET c == Constructed(MaxClasses, Directory("train", MaxClasses),
                         Directory("val", MaxClasses), Directory("test", MaxClasses))
    IN  /\ pc = c.pc
        /\ release \in Releases
        /\ num_classes = c.num_classes
        /\ height = c.height /\ width = c.width /\ image_size = c.image_size
        /\ train_ds = c.train_ds /\ val_ds = c.val_ds /\ test_ds = c.test_ds
        /\ model = None /\ history = None
        /\ files = [p \in Paths |-> None]
        /\ result = c.result

\* mutant of BuildModel: an existing model is kept
BuildModelOnce ==
    /\ pc = "ready"
    /\ model' = IF model = None THEN Some(build_model(num_classes)) ELSE model
    /\ result' = Returned("build_model")
    /\ UNCHANGED <<pc, release, config, datasets, history, files>>

\* classifier.build_model()
BuildModel ==
    /\ pc = "ready"
    /\ model' = Some(build_model(num_classes))
    /\ result' = Returned("build_model")
    /\ UNCHANGED <<pc, release, config, datasets, history, files>>

\* mutant of Train: without a model the call returns instead of raising
TrainGuarded ==
    /\ pc = "ready"
    /\ \E epochs \in EpochBudgets, model_path \in Paths, saves_without_monitor \in BOOLEAN :
       \E shape \in RunShapes(epochs) :
         IF model = None
         THEN /\ result' = Returned("train")
              /\ UNCHANGED <<model, history, files>>
         ELSE /\ Get(model).weights + epochs <= MaxTrained
              /\ \E out \in {fit(Get(model), files[model_path],
                                training_run(epochs, shape[1], shape[2]), saves_without_monitor)} :
                     /\ model' = Some(out.model)
                     /\ history' = Some(out.history)
                     /\ files' = [files EXCEPT ![model_path] = out.file]
                     /\ result' = [Returned("train") EXCEPT !.epochs = epochs,
                                                            !.run = shape]
    /\ UNCHANGED <<pc, release, config, datasets>>

\* classifier.train(epochs, model_path): self.model.fit raises AttributeError
\* when no model was built; otherwise the History it returns is assigned
Train ==
    /\ pc = "ready"
    /\ \E epochs \in EpochBudgets, model_path \in Paths, saves_without_monitor \in BOOLEAN :
       \E shape \in RunShapes(epochs) :
         IF model = None
         THEN /\ result' = Raised("train", "AttributeError")
              /\ UNCHANGED <<model, history, files>>
         ELSE /\ Get(model).weights + epochs <= MaxTrained
              /\ \E out \in {fit(Get(model), files[model_path],
                                training_run(epochs, shape[1], shape[2]), saves_without_monitor)} :
                     /\ model' = Some(out.model)
                     /\ history' = Some(out.history)
                     /\ files' = [files EXCEPT ![model_path] = out.file]
                     /\ result' = [Returned("train") EXCEPT !.epochs = epochs,
                                                            !.run = shape]
    /\ UNCHANGED <<pc, release, config, datasets>>

\* classifier.fine_tune(start_layer)
FineTune ==
    /\ pc = "ready"
    /\ \E start_layer \in 0..BackboneLayers :
         IF model = None
         THEN /\ result' = [Raised("fine_tune", "AttributeError")
                               EXCEPT !.start_layer = start_layer]
              /\ UNCHANGED model
         ELSE LET out == fine_tune(Get(model), start_layer)
              IN  /\ model' = Some(out.model)
                  /\ result' = [Raised("fine_tune", out.raised)
                                   EXCEPT !.start_layer = start_layer]
    /\ UNCHANGED <<pc, release, config, datasets, history, files>>

\* mutant of lookup_dataset: an unknown name falls back to the validation data
lookup_dataset_default(dataset) ==
    CASE dataset = "train" -> train_ds
      [] dataset = "val" -> val_ds
      [] dataset = "test" -> test_ds
      [] OTHER -> val_ds

\* {'train': ..., 'val': ..., 'test': ...}.get(dataset)
lookup_dataset(dataset) ==
    CASE dataset = "train" -> train_ds
      [] dataset = "val" -> val_ds
      [] dataset = "test" -> test_ds
      [] OTHER -> None

\* classifier.evaluate(dataset): the lookup, then self.model.evaluate(eval_ds),
\* which raises AttributeError without a model and ValueError without data
Evaluate ==
    /\ pc = "ready"
    /\ \E dataset \in DatasetNames :
         LET eval_ds == lookup_dataset(dataset)
             exc == IF model = None THEN "AttributeError"
                    ELSE IF eval_ds = None THEN "ValueError" ELSE ""
         IN  result' = [Raised("evaluate", exc) EXCEPT !.dataset = dataset,
                                                        !.eval_ds = eval_ds]
    /\ UNCHANGED <<pc, release, config, datasets, model, history, files>>

\* classifier.save_model(path)
SaveModel ==
    /\ pc = "ready"
    /\ \E path \in Paths :
         IF model = None
         THEN /\ result' = Raised("save_model", "AttributeError")
              /\ UNCHANGED files
         ELSE /\ files' = [files EXCEPT ![path] = Some(save(Get(model)))]
              /\ result' = Returned("save_model")
    /\ UNCHANGED <<pc, release, config, datasets, model, history>>

\* ThermalImageClassifierEfficientNet.load_model(path)
LoadModel ==
    /\ pc = "ready"
    /\ \E path \in Paths :
         LET out == load_model(files[path], CustomObjects)
         IN  result' = [Raised("load_model", out.raised) EXCEPT !.loaded = out.model]
    /\ UNCHANGED <<pc, release, config, datasets, model, history, files>>

\* mutant of PlotTrainingHistory: no guard, self.history.history is read
PlotTrainingHistoryUnguarded ==
    /\ pc = "ready"
    /\ IF history = None
       THEN result' = Raised("plot_training_history", "AttributeError")
       ELSE IF PlotKeys \subseteq history_keys(Get(history))
       THEN result' = [Returned("plot_training_history") EXCEPT !.plotted = TRUE]
       ELSE result' = Raised("plot_training_history", "KeyError")
    /\ UNCHANGED <<pc, release, config, datasets, model, history, files>>

\* classifier.plot_training_history(): without a history it prints and
\* returns; otherwise it plots the four curves and shows the figure.
\* Reading a curve the history does not hold (the history of a train call
\* of no epochs holds none) raises KeyError before the figure is shown.
PlotTrainingHistory ==
    /\ pc = "ready"
    /\ IF history = None
       THEN result' = Returned("plot_training_history")
       ELSE IF PlotKeys \subseteq history_keys(Get(history))
       THEN result' = [Returned("plot_training_history") EXCEPT !.plotted = TRUE]
       ELSE result' = Raised("plot_training_history", "KeyError")
    /\ UNCHANGED <<pc, release, config, datasets, model, history, files>>

Next ==
    \/ BuildModel
    \/ Train
    \/ FineTune
    \/ Evaluate
    \/ SaveModel
    \/ LoadModel
    \/ PlotTrainingHistory

\* the methods of one constructed classifier, called in any order
Spec == Init /\ [][Next]_vars

\* the constructor alone, over every directory layout within the bounds
SpecInit == InitNew /\ [][Construct]_vars

(********************************* claims **********************************)
BackboneFrozen(m) ==
    /\ ~Backbone(m).trainable
    /\ \A i \in DOMAIN Backbone(m).layers : ~Backbone(m).layers[i].trainable

\* C1: after build_model every backbone layer reports not-trainable, and
\* after a following fine_tune(start_layer=L), which completes without
\* error, backbone layer i reports trainable exactly when i >= L.
C1_FineTuneUnfreezesFromStartLayer ==
    /\ result.op = "build_model" => BackboneFrozen(Get(model))
    /\ (result.op = "fine_tune" /\ model # None) =>
          /\ result.raised = ""
          /\ \A i \in DOMAIN Backbone(Get(model)).layers :
                Backbone(Get(model)).layers[i].trainable <=> (i - 1 >= result.start_layer)

\* the first epoch of a history whose validation accuracy is better than
\* that of every earlier epoch and not beaten later
BestEpoch(h) ==
    CHOOSE e \in DOMAIN h :
        /\ \A f \in DOMAIN h : h[f].val_accuracy <= h[e].val_accuracy
        /\ \A f \in 1..(e - 1) : h[f].val_accuracy < h[e].val_accuracy

\* C2: when train returns, model_path holds the weights of the epoch of
\* that call with the best validation accuracy.
C2_CheckpointHoldsBestEpoch ==
    (result.op = "train" /\ result.raised = "" /\ result.epochs > 0) =>
        /\ files[ModelPath] # None
        /\ Get(files[ModelPath]).weights =
              (Get(model).weights - result.epochs) + BestEpoch(Get(history).history)

\* C3: the constructor, which prepares the three datasets, succeeds when
\* every dataset directory has num_classes class subdirectories and fails
\* when one has more or fewer.
C3_PrepareFailsOnClassMismatch ==
    result.op = "__init__" =>
        (result.raised = "" <=> \A i \in 1..3 : result.dirs[i] = num_classes)

\* C4: after build_model returns, whatever calls preceded it, the model has
\* no trained weights, a frozen backbone and the initial learning rate.
C4_BuildModelReplacesModel ==
    result.op = "build_model" =>
        /\ model # None
        /\ Get(model).weights = 0
        /\ Get(model).lr = InitialLR
        /\ BackboneFrozen(Get(model))
        /\ output_shape(Get(model)) = <<num_classes>>

\* a rebuild after the previous model was trained at a lowered rate
C4_Witness ==
    /\ result.op = "build_model"
    /\ history # None
    /\ \E e \in DOMAIN Get(history).history : Get(history).history[e].lr < InitialLR
    /\ Get(model).weights = 0 /\ Get(model).lr = InitialLR

LrChanges == model # None /\ model' # None /\ Get(model').lr # Get(model).lr

\* C5 as stated: the configuration never changes and the learning rate
\* changes only once, from the initial to the fine-tuning value, when
\* fine_tune is called.
C5_LearningRateChangesOnlyAtFineTune ==
    [][/\ config' = config
       /\ LrChanges => /\ result'.op = "fine_tune"
                       /\ Get(model).lr = InitialLR
                       /\ Get(model').lr = FineTuneLR]_vars

\* C5 amended: num_classes, height and width never change; the learning
\* rate changes only inside build_model (back to the initial value), inside
\* train (lowered by the plateau callback) or inside fine_tune (to the
\* fine-tuning value), never in evaluate, save_model, load_model or
\* plot_training_history.
C5_LearningRateChangesOnlyInBuildTrainFineTune ==
    [][/\ config' = config
       /\ LrChanges =>
            \/ result'.op = "build_model" /\ Get(model').lr = InitialLR
            \/ result'.op = "train" /\ Get(model').lr < Get(model).lr
            \/ result'.op = "fine_tune" /\ Get(model').lr = FineTuneLR]_vars

\* a train call that returned with the rate lowered by the plateau callback
C5_Witness ==
    /\ result.op = "train" /\ result.raised = ""
    /\ Get(model).lr = InitialLR \div FactorDen
    /\ result.epochs > 0
    /\ Get(history).history[1].lr = InitialLR

KnownDatasets == {"train", "val", "test"}

\* C6: evaluate selects the training, validation or test dataset by name;
\* for any other name the lookup selects nothing and the evaluation fails;
\* the model, the history and the datasets are left as they were.
C6_EvaluateSelectsDatasetByName ==
    [][result'.op = "evaluate" =>
         /\ model' = model /\ history' = history /\ datasets' = datasets
         /\ result'.dataset = "train" => result'.eval_ds = train_ds
         /\ result'.dataset = "val" => result'.eval_ds = val_ds
         /\ result'.dataset = "test" => result'.eval_ds = test_ds
         /\ result'.dataset \in KnownDatasets =>
               /\ result'.eval_ds # None
               /\ model # None => result'.raised = ""
         /\ result'.dataset \notin KnownDatasets =>
               /\ result'.eval_ds = None
               /\ result'.raised # ""
               /\ model # None => result'.raised = "ValueError"]_vars

\* evaluate with an unknown name on a trained model
C6_Witness ==
    /\ result.op = "evaluate" /\ result.dataset \notin KnownDatasets
    /\ result.raised = "ValueError" /\ result.eval_ds = None
    /\ model # None /\ history # None

\* C7: plot_training_history without a history returns normally, shows no
\* plot and leaves model and history as they were.
C7_PlotWithoutHistoryIsNoOp ==
    [][(history = None /\ result'.op = "plot_training_history") =>
         /\ result'.raised = ""
         /\ ~result'.plotted
         /\ model' = model /\ history' = history]_vars

\* plot_training_history returned on a built but untrained classifier
C7_Witness ==
    /\ result.op = "plot_training_history" /\ result.raised = ""
    /\ ~result.plotted
    /\ history = None /\ model # None

\* C8: a train(epochs=N) call on a built model runs N epochs and leaves a
\* history of exactly the N records of that call.
C8_TrainRunsAllEpochs ==
    [][(result'.op = "train" /\ model # None) =>
         /\ result'.raised = ""
         /\ Get(model').weights = Get(model).weights + result'.epochs
         /\ history' # None
         /\ Len(Get(history').history) = result'.epochs
         /\ Get(history').epoch = [e \in 1..result'.epochs |-> e - 1]
         /\ \A e \in 1..result'.epochs :
               LET logged == Get(history').history[e]
                   given == training_run(result'.epochs, result'.run[1], result'.run[2])[e]
               IN  /\ logged.loss = given.loss
                   /\ logged.val_accuracy = given.val_accuracy]_vars

\* a second train call returned: the history is shorter than the training
\* the model has had, and the plateau callback lowered the rate before the
\* last epoch of the call, which ran on
C8_Witness ==
    /\ result.op = "train" /\ result.raised = ""
    /\ Len(Get(history).history) = result.epochs
    /\ Get(model).weights > result.epochs
    /\ Get(model).lr < InitialLR
    /\ result.epochs > Patience + 1
    /\ Get(history).history[result.epochs].lr < Get(history).history[1].lr

SameTrainableFlags(a, b) ==
    /\ Len(a.layers) = Len(b.layers)
    /\ \A i \in DOMAIN a.layers :
          /\ a.layers[i].class = b.layers[i].class
          /\ a.layers[i].trainable = b.layers[i].trainable
          /\ Len(a.layers[i].layers) = Len(b.layers[i].layers)
          /\ \A j \in DOMAIN a.layers[i].layers :
                a.layers[i].layers[j].trainable = b.layers[i].layers[j].trainable

\* C9: load_model right after save_model returns a model with the output
\* shape, the weights and the trainable flags of the classifier's model;
\* neither call changes the classifier's model or history.
C9_SaveLoadRoundTrip ==
    [][/\ result'.op \in {"save_model", "load_model"} =>
             model' = model /\ history' = history
       /\ (result.op = "save_model" /\ result.raised = "" /\ result'.op = "load_model") =>
             /\ result'.raised = ""
             /\ result'.loaded # None
             /\ output_shape(Get(result'.loaded)) = output_shape(Get(model))
             /\ Get(result'.loaded).weights = Get(model).weights
             /\ SameTrainableFlags(Get(result'.loaded), Get(model))]_vars

\* C10: without a model, train, fine_tune, evaluate and save_model raise and
\* leave model, history and files as they were; build_model and
\* plot_training_history are the only calls that return.
C10_CallsBeforeBuildFail ==
    [][(pc = "ready" /\ model = None) =>
         /\ result'.op \in {"train", "fine_tune", "evaluate", "save_model"} =>
               /\ result'.raised = "AttributeError"
               /\ model' = None /\ history' = None
               /\ files' = [p \in Paths |-> None]
         /\ result'.raised = "" <=>
               result'.op \in {"build_model", "plot_training_history"}
         /\ result'.op = "build_model" => model' # None]_vars

\* save_model raised on a classifier without a model
C10_Witness ==
    /\ model = None /\ history = None
    /\ result.op = "save_model" /\ result.raised = "AttributeError"
    /\ files = [p \in Paths |-> None]
====
